---- MODULE Spec2Model ----
(***************************************************************************)
(* Model of spider_scraper's HTML tree wrapper (src/html/mod.rs) and its   *)
(* element references (src/element_ref/mod.rs).                            *)
(*                                                                         *)
(* An Html value owns an arena-backed tree (ego_tree::Tree<Node>).  The    *)
(* arena is a vector of nodes in creation order; a NodeId is an index into *)
(* it, and nodes are never freed.  Linkage is kept as a parent pointer per *)
(* node plus the ordered list of children of each node.                    *)
(***************************************************************************)
EXTENDS Integers, Sequences, FiniteSets, TLC

VARIABLES
    html,      \* the Html value: [quirks_mode, tree, lang]
    phase,     \* "parsing" while the parser drives the sink, then "parsed"
    received,  \* history: the parse_error messages delivered to the sink
    it,        \* the live html::Select iterator, if any, with what it yielded
    res,       \* the outcome of the last query operation
    removed,   \* history: the ids given to remove_node (targets) and the
               \* nodes it took out of the document, with their subtrees (nodes)
    explicit   \* history: the argument of the last set_language call, if any

vars == <<html, phase, received, it, res, removed, explicit>>

----------------------------------------------------------------------------
(* Bounds *)

MaxNodes == 4      \* arena size, the root included
MaxTextLen == 2    \* length of a coalesced text node
MaxErrors == 2     \* parse_error events delivered

----------------------------------------------------------------------------
(* Option<T> *)

None == <<>>
Some(x) == <<x>>
is_some(o) == o # <<>>
unwrap(o) == o[1]

----------------------------------------------------------------------------
(* Node values (crate::node::Node) *)

Names == {"html", "b", "script", "style"}
Chars == {"a"}
Messages == {"e1", "e2"}
QuirksModes == {"NoQuirks", "LimitedQuirks", "Quirks"}
Langs == {"", "fr"}

Document == [kind |-> "Document", name |-> "", attrs |-> {}, text |-> <<>>]
Fragment == [kind |-> "Fragment", name |-> "", attrs |-> {}, text |-> <<>>]
Doctype == [kind |-> "Doctype", name |-> "html", attrs |-> {}, text |-> <<>>]
Comment(t) == [kind |-> "Comment", name |-> "", attrs |-> {}, text |-> t]
TextNode(t) == [kind |-> "Text", name |-> "", attrs |-> {}, text |-> t]
Element(n, a) == [kind |-> "Element", name |-> n, attrs |-> a, text |-> <<>>]

\* Element::attr
attr(v, a) ==
    IF \E p \in v.attrs : p[1] = a
    THEN Some((CHOOSE p \in v.attrs : p[1] = a)[2])
    ELSE None

----------------------------------------------------------------------------
(* The arena tree (ego_tree::Tree) *)

\* Tree::new(root)
Tree_new(v) == [vals |-> <<v>>, parent |-> <<None>>, kids |-> << <<>> >>]

Ids(t) == 1..Len(t.vals)
root_id == 1

is_element(t, n) == t.vals[n].kind = "Element"
is_text(t, n) == t.vals[n].kind = "Text"

Remove(s, x) == SelectSeq(s, LAMBDA y : y # x)

IndexOf(s, x) == CHOOSE i \in 1..Len(s) : s[i] = x

InsertAt(s, i, x) == SubSeq(s, 1, i - 1) \o <<x>> \o SubSeq(s, i, Len(s))

\* NodeRef::first_child / last_child / next_sibling / prev_sibling
first_child(t, n) == IF t.kids[n] = <<>> THEN None ELSE Some(Head(t.kids[n]))
last_child(t, n) ==
    IF t.kids[n] = <<>> THEN None ELSE Some(t.kids[n][Len(t.kids[n])])
next_sibling(t, n) ==
    IF t.parent[n] = None THEN None
    ELSE LET s == t.kids[unwrap(t.parent[n])]
             i == IndexOf(s, n)
         IN  IF i = Len(s) THEN None ELSE Some(s[i + 1])
prev_sibling(t, n) ==
    IF t.parent[n] = None THEN None
    ELSE LET s == t.kids[unwrap(t.parent[n])]
             i == IndexOf(s, n)
         IN  IF i = 1 THEN None ELSE Some(s[i - 1])

\* Tree::orphan(value): a new node with no parent, at the end of the arena
orphan(t, v) ==
    [vals |-> Append(t.vals, v),
     parent |-> Append(t.parent, None),
     kids |-> Append(t.kids, <<>>)]

\* NodeMut::detach: unlink the node from its parent; its subtree stays
\* attached to it.  No effect on a node that has no parent.
detach(t, n) ==
    IF t.parent[n] = None THEN t
    ELSE LET p == unwrap(t.parent[n])
         IN  [t EXCEPT !.parent[n] = None, !.kids[p] = Remove(@, n)]

\* NodeMut::append_id
append_id(t, p, c) ==
    IF last_child(t, p) = Some(c) THEN t
    ELSE LET d == detach(t, c)
         IN  [d EXCEPT !.parent[c] = Some(p), !.kids[p] = Append(@, c)]

\* NodeMut::insert_id_before
insert_id_before(t, s, c) ==
    LET d == detach(t, c)
        p == unwrap(d.parent[s])
    IN  [d EXCEPT !.parent[c] = Some(p),
                  !.kids[p] = InsertAt(@, IndexOf(@, s), c)]

RECURSIVE is_ancestor_or_self(_, _, _)
\* a is n or one of n's ancestors
is_ancestor_or_self(t, a, n) ==
    \/ a = n
    \/ /\ t.parent[n] # None
       /\ is_ancestor_or_self(t, a, unwrap(t.parent[n]))

\* n is in the tree of the root
InDocument(t, n) == is_ancestor_or_self(t, root_id, n)

\* the proper descendants of n
Descendants(t, n) ==
    {d \in Ids(t) : d # n /\ is_ancestor_or_self(t, n, d)}

----------------------------------------------------------------------------
(* Html *)

\* Html::new_document / Html::new_fragment
new_document ==
    [quirks_mode |-> "NoQuirks", tree |-> Tree_new(Document), lang |-> ""]
new_fragment ==
    [quirks_mode |-> "NoQuirks", tree |-> Tree_new(Fragment), lang |-> ""]

NoIter == [live |-> FALSE]
NoRes == [op |-> "none"]

InitWith(hs) ==
    /\ html \in hs
    /\ phase = "parsing"
    /\ received = <<>>
    /\ it = NoIter
    /\ res = NoRes
    /\ removed = [targets |-> {}, nodes |-> {}]
    /\ explicit = None

Init == InitWith({new_document, new_fragment})
InitDocument == InitWith({new_document})

----------------------------------------------------------------------------
(* The tree sink: the parser's construction callbacks *)

CanCreate == phase = "parsing" /\ Len(html.tree.vals) < MaxNodes

Rest == UNCHANGED <<phase, received, it, res, removed, explicit>>

\* TreeSink::create_element
create_element(v) ==
    /\ CanCreate
    /\ html' = [html EXCEPT !.tree = orphan(@, v)]
    /\ Rest

\* TreeSink::create_comment
create_comment(t) ==
    /\ CanCreate
    /\ html' = [html EXCEPT !.tree = orphan(@, Comment(t))]
    /\ Rest

\* nodes the parser uses as insertion parents
IsContainer(t, n) == t.vals[n].kind \in {"Document", "Fragment", "Element"}

\* TreeSink::append with NodeOrText::AppendNode
append_node(p, c) ==
    /\ phase = "parsing"
    /\ IsContainer(html.tree, p)
    /\ c # root_id
    /\ ~is_ancestor_or_self(html.tree, c, p)
    /\ html' = [html EXCEPT !.tree = append_id(@, p, c)]
    /\ Rest

\* TreeSink::append with NodeOrText::AppendText: text is merged into a
\* text node that is already the last child
append_text(p, s) ==
    /\ phase = "parsing"
    /\ IsContainer(html.tree, p)
    /\ LET t == html.tree
           l == last_child(t, p)
       IN  IF is_some(l) /\ is_text(t, unwrap(l))
           THEN /\ Len(t.vals[unwrap(l)].text) + Len(s) <= MaxTextLen
                /\ html' = [html EXCEPT !.tree.vals[unwrap(l)].text = @ \o s]
           ELSE /\ Len(t.vals) < MaxNodes
                /\ html' = [html EXCEPT !.tree =
                              append_id(orphan(t, TextNode(s)), p, Len(t.vals) + 1)]
    /\ Rest

\* TreeSink::append_before_sibling with NodeOrText::AppendNode
append_before_sibling_node(s, c) ==
    /\ phase = "parsing"
    /\ c # root_id
    /\ c # s
    /\ ~is_ancestor_or_self(html.tree, c, s)
    /\ LET d == detach(html.tree, c)
       IN  html' = [html EXCEPT !.tree =
                      IF d.parent[s] = None THEN d ELSE insert_id_before(d, s, c)]
    /\ Rest

\* TreeSink::append_before_sibling with NodeOrText::AppendText
append_before_sibling_text(s, x) ==
    /\ phase = "parsing"
    /\ html.tree.parent[s] # None
    /\ LET t == html.tree
           l == prev_sibling(t, s)
       IN  IF is_some(l) /\ is_text(t, unwrap(l))
           THEN /\ Len(t.vals[unwrap(l)].text) + Len(x) <= MaxTextLen
                /\ html' = [html EXCEPT !.tree.vals[unwrap(l)].text = @ \o x]
           ELSE /\ Len(t.vals) < MaxNodes
                /\ html' = [html EXCEPT !.tree =
                              insert_id_before(orphan(t, TextNode(x)), s,
                                               Len(t.vals) + 1)]
    /\ Rest

\* TreeSink::append_doctype_to_document
append_doctype_to_document ==
    /\ CanCreate
    /\ html' = [html EXCEPT !.tree =
                  append_id(orphan(@, Doctype), root_id, Len(@.vals) + 1)]
    /\ Rest

\* TreeSink::set_quirks_mode
set_quirks_mode(m) ==
    /\ phase = "parsing"
    /\ html' = [html EXCEPT !.quirks_mode = m]
    /\ Rest

\* Html::parse_document / Html::parse_fragment return the sink
finish ==
    /\ phase = "parsing"
    /\ phase' = "parsed"
    /\ UNCHANGED <<html, received, it, res, removed, explicit>>

----------------------------------------------------------------------------
(* Selectors (crate::selector::Selector): the matching engine is used only  *)
(* through its match predicate, optionally with a scope element.            *)

Tag(n) == [type |-> "tag", name |-> n]                  \* n
Universal == [type |-> "any", name |-> ""]              \* *
ScopeChild(n) == [type |-> "scope_child", name |-> n]   \* :scope > n

HTML_SELECTOR == Tag("html")

\* Element::is_root: the parent is the document node
is_root(t, n) ==
    /\ t.parent[n] # None
    /\ t.vals[unwrap(t.parent[n])].kind = "Document"

\* Selector::matches_with_scope(element, scope)
matches_with_scope(t, sel, n, scope) ==
    CASE sel.type = "tag" -> t.vals[n].name = sel.name
      [] sel.type = "any" -> TRUE
      [] sel.type = "scope_child" ->
            /\ t.vals[n].name = sel.name
            /\ t.parent[n] # None
            /\ LET p == unwrap(t.parent[n])
               IN  /\ is_element(t, p)
                   /\ IF is_some(scope) THEN p = unwrap(scope) ELSE is_root(t, p)

\* Selector::matches(element)
matches(t, sel, n) == matches_with_scope(t, sel, n, None)

----------------------------------------------------------------------------
(* ElementRef *)

\* ElementRef::wrap
wrap(t, n) == IF is_element(t, n) THEN Some(n) ELSE None

----------------------------------------------------------------------------
(* html::Select: the document-wide iterator over ego_tree::iter::Nodes, a   *)
(* double-ended range over the arena indices.                               *)

\* Tree::nodes
Tree_nodes(t) == [start |-> 1, end |-> Len(t.vals) + 1]

\* Nodes::next
Nodes_next(r) ==
    IF r.start < r.end
    THEN [item |-> Some(r.start), iter |-> [r EXCEPT !.start = @ + 1]]
    ELSE [item |-> None, iter |-> r]

\* Nodes::next_back
Nodes_next_back(r) ==
    IF r.start < r.end
    THEN [item |-> Some(r.end - 1), iter |-> [r EXCEPT !.end = @ - 1]]
    ELSE [item |-> None, iter |-> r]

\* Html::select
Html_select(h, sel) == [inner |-> Tree_nodes(h.tree), selector |-> sel]

RECURSIVE Select_next(_, _)
\* <html::Select as Iterator>::next
Select_next(t, s) ==
    LET n == Nodes_next(s.inner)
        s2 == [s EXCEPT !.inner = n.iter]
    IN  IF n.item = None THEN [item |-> None, iter |-> s2]
        ELSE IF /\ is_some(wrap(t, unwrap(n.item)))
                /\ is_some(t.parent[unwrap(n.item)])
                /\ matches(t, s.selector, unwrap(n.item))
        THEN [item |-> n.item, iter |-> s2]
        ELSE Select_next(t, s2)

RECURSIVE Select_next_back_no_parent(_, _)
\* next_back without the test that the element has a parent
Select_next_back_no_parent(t, s) ==
    LET n == Nodes_next_back(s.inner)
        s2 == [s EXCEPT !.inner = n.iter]
    IN  IF n.item = None THEN [item |-> None, iter |-> s2]
        ELSE IF /\ is_some(wrap(t, unwrap(n.item)))
                /\ matches(t, s.selector, unwrap(n.item))
        THEN [item |-> n.item, iter |-> s2]
        ELSE Select_next_back_no_parent(t, s2)

RECURSIVE Select_next_back_own_cursor(_, _)
\* next_back with a back cursor that does not stop at the front cursor
Select_next_back_own_cursor(t, s) ==
    IF s.inner.end <= 1 THEN [item |-> None, iter |-> s]
    ELSE LET node == s.inner.end - 1
             s2 == [s EXCEPT !.inner.end = node]
         IN  IF /\ is_some(wrap(t, node))
                /\ is_some(t.parent[node])
                /\ matches(t, s.selector, node)
             THEN [item |-> Some(node), iter |-> s2]
             ELSE Select_next_back_own_cursor(t, s2)

RECURSIVE Select_next_back(_, _)
\* <html::Select as DoubleEndedIterator>::next_back
Select_next_back(t, s) ==
    LET n == Nodes_next_back(s.inner)
        s2 == [s EXCEPT !.inner = n.iter]
    IN  IF n.item = None THEN [item |-> None, iter |-> s2]
        ELSE IF /\ is_some(wrap(t, unwrap(n.item)))
                /\ is_some(t.parent[unwrap(n.item)])
                /\ matches(t, s.selector, unwrap(n.item))
        THEN [item |-> n.item, iter |-> s2]
        ELSE Select_next_back(t, s2)

RECURSIVE collect(_, _)
\* Iterator::collect over html::Select, driven by next
collect(t, s) ==
    LET r == Select_next(t, s)
    IN  IF r.item = None THEN <<>>
        ELSE <<unwrap(r.item)>> \o collect(t, r.iter)

RECURSIVE rev_collect(_, _)
\* Iterator::rev().collect() over html::Select, driven by next_back
rev_collect(t, s) ==
    LET r == Select_next_back(t, s)
    IN  IF r.item = None THEN <<>>
        ELSE <<unwrap(r.item)>> \o rev_collect(t, r.iter)

----------------------------------------------------------------------------
(* element_ref::Select and element_ref::Text over ego_tree::iter::Traverse  *)

Open(n) == <<"Open", n>>
Close(n) == <<"Close", n>>

\* NodeRef::traverse
traverse(n) == [root |-> n, edge |-> None]

\* Traverse::next: the edge it moves to is the item it returns
Traverse_next(t, tr) ==
    LET e == IF tr.edge = None THEN Some(Open(tr.root))
             ELSE LET cur == unwrap(tr.edge)
                      node == cur[2]
                  IN  IF cur[1] = "Open"
                      THEN IF is_some(first_child(t, node))
                           THEN Some(Open(unwrap(first_child(t, node))))
                           ELSE Some(Close(node))
                      ELSE IF node = tr.root THEN None
                      ELSE IF is_some(next_sibling(t, node))
                           THEN Some(Open(unwrap(next_sibling(t, node))))
                           ELSE IF is_some(t.parent[node])
                                THEN Some(Close(unwrap(t.parent[node])))
                                ELSE None
    IN  [item |-> e, iter |-> [tr EXCEPT !.edge = e]]

\* select without the inner.next() that skips Edge::Open(self)
ElementRef_select_no_skip(t, e, sel) ==
    [scope |-> e, inner |-> traverse(e), selector |-> sel]

\* ElementRef::select
ElementRef_select(t, e, sel) ==
    [scope |-> e, inner |-> Traverse_next(t, traverse(e)).iter, selector |-> sel]

RECURSIVE ESelect_next(_, _)
\* <element_ref::Select as Iterator>::next
ESelect_next(t, s) ==
    LET n == Traverse_next(t, s.inner)
        s2 == [s EXCEPT !.inner = n.iter]
    IN  IF n.item = None THEN [item |-> None, iter |-> s2]
        ELSE LET edge == unwrap(n.item)
             IN  IF /\ edge[1] = "Open"
                    /\ is_some(wrap(t, edge[2]))
                    /\ matches_with_scope(t, s.selector, edge[2], Some(s.scope))
                 THEN [item |-> Some(edge[2]), iter |-> s2]
                 ELSE ESelect_next(t, s2)

RECURSIVE ESelect_collect(_, _)
\* Iterator::collect over element_ref::Select
ESelect_collect(t, s) ==
    LET r == ESelect_next(t, s)
    IN  IF r.item = None THEN <<>>
        ELSE <<unwrap(r.item)>> \o ESelect_collect(t, r.iter)

\* ElementRef::text
ElementRef_text(e) == [inner |-> traverse(e)]

\* the test with the style name left out
processable_script_only(t, n) ==
    IF is_some(t.parent[n])
    THEN LET p == unwrap(t.parent[n])
         IN  IF is_element(t, p) THEN ~(t.vals[p].name = "script") ELSE TRUE
    ELSE TRUE

\* the `processable` test of Text::next
processable(t, n) ==
    IF is_some(t.parent[n])
    THEN LET p == unwrap(t.parent[n])
         IN  IF is_element(t, p)
             THEN ~(t.vals[p].name = "script" \/ t.vals[p].name = "style")
             ELSE TRUE
    ELSE TRUE

RECURSIVE Text_next(_, _)
\* <element_ref::Text as Iterator>::next; the item is the text node, whose
\* string is what the caller receives
Text_next(t, s) ==
    LET n == Traverse_next(t, s.inner)
        s2 == [s EXCEPT !.inner = n.iter]
    IN  IF n.item = None THEN [item |-> None, iter |-> s2]
        ELSE LET edge == unwrap(n.item)
             IN  IF /\ edge[1] = "Open"
                    /\ processable(t, edge[2])
                    /\ is_text(t, edge[2])
                 THEN [item |-> Some(edge[2]), iter |-> s2]
                 ELSE Text_next(t, s2)

RECURSIVE Text_collect(_, _)
\* Iterator::collect over element_ref::Text
Text_collect(t, s) ==
    LET r == Text_next(t, s)
    IN  IF r.item = None THEN <<>>
        ELSE <<unwrap(r.item)>> \o Text_collect(t, r.iter)

----------------------------------------------------------------------------
(* Html queries *)

RECURSIVE find_element(_, _)
\* Iterator::find(|child| child.value().is_element()) over children()
find_element(t, cs) ==
    IF cs = <<>> THEN None
    ELSE IF is_element(t, Head(cs)) THEN Some(Head(cs))
    ELSE find_element(t, Tail(cs))

\* root_element looking at the first child of the root only
Html_root_element_first_child(h) ==
    LET c == first_child(h.tree, root_id)
    IN  IF c = None \/ ~is_element(h.tree, unwrap(c))
        THEN [panic |-> TRUE, value |-> None]
        ELSE [panic |-> FALSE, value |-> c]

\* Html::root_element: the element, or a panic ("html node missing")
Html_root_element(h) ==
    LET r == find_element(h.tree, h.tree.kids[root_id])
    IN  IF r = None THEN [panic |-> TRUE, value |-> None]
        ELSE [panic |-> FALSE, value |-> wrap(h.tree, unwrap(r))]

\* get_lang reading the tree before the stored lang
Html_get_lang_tree_first(h) ==
    LET first == Select_next(h.tree, Html_select(h, HTML_SELECTOR)).item
    IN  IF is_some(first) /\ is_some(attr(h.tree.vals[unwrap(first)], "lang"))
        THEN unwrap(attr(h.tree.vals[unwrap(first)], "lang"))
        ELSE h.lang

\* Html::get_lang
Html_get_lang(h) ==
    IF h.lang = ""
    THEN LET first == Select_next(h.tree, Html_select(h, HTML_SELECTOR)).item
         IN  IF is_some(first) /\ is_some(attr(h.tree.vals[unwrap(first)], "lang"))
             THEN unwrap(attr(h.tree.vals[unwrap(first)], "lang"))
             ELSE h.lang
    ELSE h.lang

\* Html::set_language
Html_set_language(h, l) == [h EXCEPT !.lang = l]

RECURSIVE detach_all(_, _)
\* detach each node of cs in turn
detach_all(t, cs) ==
    IF cs = <<>> THEN t ELSE detach_all(detach(t, Head(cs)), Tail(cs))

\* remove_node that also takes the node's children off it
Html_remove_node_children(h, id) ==
    IF id \in Ids(h.tree)
    THEN [h EXCEPT !.tree = detach_all(detach(@, id), @.kids[id])]
    ELSE h

\* Html::remove_node: Tree::get_mut resolves every id of the arena
Html_remove_node(h, id) ==
    IF id \in Ids(h.tree) THEN [h EXCEPT !.tree = detach(@, id)] ELSE h

----------------------------------------------------------------------------
(* Parse errors *)

\* TreeSink::parse_error: Html has no field that holds the message
parse_error(m) ==
    /\ phase = "parsing"
    /\ Len(received) < MaxErrors
    /\ received' = Append(received, m)
    /\ UNCHANGED <<html, phase, it, res, removed, explicit>>

\* the error log a caller can read from an Html value
errors(h) == IF "errors" \in DOMAIN h THEN h.errors ELSE <<>>

----------------------------------------------------------------------------
(* Operations on the parsed Html.  A live iterator borrows the tree, so the *)
(* operations that take &mut self wait for it to be dropped.                *)

Parsed == phase = "parsed"

\* the elements an ElementRef can be obtained for through select or
\* root_element
Elements(t) == {n \in Ids(t) : is_element(t, n) /\ is_some(t.parent[n])}

\* let it = html.select(sel)
select_new(sel) ==
    /\ Parsed
    /\ ~it.live
    /\ it' = [live |-> TRUE, iter |-> Html_select(html, sel),
              front |-> <<>>, back |-> <<>>, ended |-> FALSE, late |-> FALSE]
    /\ UNCHANGED <<html, phase, received, res, removed, explicit>>

\* it.next()
select_next ==
    /\ Parsed
    /\ it.live
    /\ LET r == Select_next(html.tree, it.iter)
       IN  it' = [it EXCEPT !.iter = r.iter,
                            !.front = IF is_some(r.item)
                                      THEN Append(@, unwrap(r.item)) ELSE @,
                            !.ended = @ \/ r.item = None,
                            !.late = @ \/ (it.ended /\ is_some(r.item))]
    /\ UNCHANGED <<html, phase, received, res, removed, explicit>>

\* it.next_back()
select_next_back ==
    /\ Parsed
    /\ it.live
    /\ LET r == Select_next_back(html.tree, it.iter)
       IN  it' = [it EXCEPT !.iter = r.iter,
                            !.back = IF is_some(r.item)
                                     THEN Append(@, unwrap(r.item)) ELSE @,
                            !.ended = @ \/ r.item = None,
                            !.late = @ \/ (it.ended /\ is_some(r.item))]
    /\ UNCHANGED <<html, phase, received, res, removed, explicit>>

\* drop(it)
select_drop ==
    /\ Parsed
    /\ it.live
    /\ it' = NoIter
    /\ UNCHANGED <<html, phase, received, res, removed, explicit>>

\* html.select(sel).collect() and html.select(sel).rev().collect()
select_all(sel) ==
    /\ Parsed
    /\ res' = [op |-> "select", sel |-> sel,
               fwd |-> collect(html.tree, Html_select(html, sel)),
               rev |-> rev_collect(html.tree, Html_select(html, sel))]
    /\ UNCHANGED <<html, phase, received, it, removed, explicit>>

\* e.select(sel).collect()
elem_select(e, sel) ==
    /\ Parsed
    /\ e \in Elements(html.tree)
    /\ res' = [op |-> "elem_select", e |-> e, sel |-> sel,
               out |-> ESelect_collect(html.tree,
                                       ElementRef_select(html.tree, e, sel))]
    /\ UNCHANGED <<html, phase, received, it, removed, explicit>>

\* e.text().collect()
elem_text(e) ==
    /\ Parsed
    /\ e \in Elements(html.tree)
    /\ LET ns == Text_collect(html.tree, ElementRef_text(e))
       IN  res' = [op |-> "text", e |-> e, nodes |-> ns,
                   out |-> [i \in 1..Len(ns) |-> html.tree.vals[ns[i]].text]]
    /\ UNCHANGED <<html, phase, received, it, removed, explicit>>

\* html.root_element()
root_element ==
    /\ Parsed
    /\ res' = [op |-> "root_element", out |-> Html_root_element(html)]
    /\ UNCHANGED <<html, phase, received, it, removed, explicit>>

\* html.get_lang()
get_lang ==
    /\ Parsed
    /\ res' = [op |-> "get_lang", out |-> Html_get_lang(html)]
    /\ UNCHANGED <<html, phase, received, it, removed, explicit>>

\* html.set_language(l)
set_language(l) ==
    /\ Parsed
    /\ ~it.live
    /\ html' = Html_set_language(html, l)
    /\ explicit' = Some(l)
    /\ res' = NoRes
    /\ UNCHANGED <<phase, received, it, removed>>

\* html.remove_node(id), with an id taken from the tree
remove_node(id) ==
    /\ Parsed
    /\ ~it.live
    /\ html' = Html_remove_node(html, id)
    /\ removed' = [targets |-> removed.targets \cup {id},
                   nodes |-> IF id # root_id /\ InDocument(html.tree, id)
                             THEN removed.nodes \cup {id}
                                      \cup Descendants(html.tree, id)
                             ELSE removed.nodes]
    /\ res' = [op |-> "remove_node", id |-> id, before |-> html,
               again |-> id \in removed.targets]
    /\ UNCHANGED <<phase, received, it, explicit>>

----------------------------------------------------------------------------
(* Specifications: each drives the sink over a set of node values and then  *)
(* applies a group of operations to the parsed Html.                        *)

SinkNodes(values) ==
    \/ \E v \in values : create_element(v)
    \/ \E p, c \in Ids(html.tree) : append_node(p, c)
    \/ \E s, c \in Ids(html.tree) : append_before_sibling_node(s, c)

SinkText ==
    \/ \E p \in Ids(html.tree), c \in Chars : append_text(p, <<c>>)
    \/ \E s \in Ids(html.tree), c \in Chars : append_before_sibling_text(s, <<c>>)

SinkComment == \E c \in Chars : create_comment(<<c>>)

SelectValues == {Element("b", {}), Element("html", {})}
SelectSelectors == {Tag("b"), Universal}

\* document-wide selection, collected forwards and backwards
NextSelect ==
    \/ SinkNodes(SelectValues)
    \/ SinkComment
    \/ finish
    \/ \E sel \in SelectSelectors : select_all(sel)

SpecSelect == InitDocument /\ [][NextSelect]_vars

\* one document-wide iterator driven from both ends
NextIter ==
    \/ SinkNodes(SelectValues)
    \/ SinkComment
    \/ finish
    \/ \E sel \in SelectSelectors : select_new(sel)
    \/ select_next
    \/ select_next_back
    \/ select_drop

SpecIter == InitDocument /\ [][NextIter]_vars

\* selection after node removal
NextRemove ==
    \/ SinkNodes(SelectValues)
    \/ finish
    \/ \E id \in Ids(html.tree) : remove_node(id)
    \/ \E sel \in SelectSelectors : select_all(sel)

SpecRemove == InitDocument /\ [][NextRemove]_vars

\* repeated node removal
DetachValues == {Element("b", {})}

NextDetach ==
    \/ SinkNodes(DetachValues)
    \/ \E m \in QuirksModes : set_quirks_mode(m)
    \/ finish
    \/ \E l \in Langs : set_language(l)
    \/ \E id \in Ids(html.tree) : remove_node(id)

SpecDetach == InitDocument /\ [][NextDetach]_vars

\* scoped selection from an element
ScopeSelectors == {Tag("b"), Universal, ScopeChild("b")}

NextScope ==
    \/ SinkNodes(SelectValues)
    \/ SinkComment
    \/ finish
    \/ \E e \in Ids(html.tree), sel \in ScopeSelectors : elem_select(e, sel)

SpecScope == InitDocument /\ [][NextScope]_vars

\* text extraction
TextValues == {Element("b", {}), Element("script", {}), Element("style", {})}

NextText ==
    \/ SinkNodes(TextValues)
    \/ SinkText
    \/ finish
    \/ \E e \in Ids(html.tree) : elem_text(e)

SpecText == InitDocument /\ [][NextText]_vars

\* root element lookup
RootValues == {Element("html", {})}

NextRoot ==
    \/ SinkNodes(RootValues)
    \/ SinkComment
    \/ append_doctype_to_document
    \/ finish
    \/ \E id \in Ids(html.tree) : remove_node(id)
    \/ root_element

SpecRoot == Init /\ [][NextRoot]_vars

\* language lookup
LangValues ==
    {Element("html", {}), Element("html", {<<"lang", "en">>}), Element("b", {})}

NextLang ==
    \/ SinkNodes(LangValues)
    \/ finish
    \/ \E l \in Langs : set_language(l)
    \/ get_lang

SpecLang == InitDocument /\ [][NextLang]_vars

\* parse errors
NextErr ==
    \/ SinkNodes(DetachValues)
    \/ \E m \in Messages : parse_error(m)
    \/ finish
    \/ \E sel \in SelectSelectors : select_all(sel)

SpecErr == Init /\ [][NextErr]_vars

\* every operation, on a document or a fragment
Next ==
    \/ NextSelect \/ NextIter \/ NextRemove \/ NextDetach \/ NextScope
    \/ NextText \/ NextRoot \/ NextLang \/ NextErr

Spec == Init /\ [][Next]_vars

----------------------------------------------------------------------------
(* Properties *)

Range(s) == {s[i] : i \in 1..Len(s)}
NoDup(s) == \A i, j \in 1..Len(s) : i # j => s[i] # s[j]
Reverse(s) == [i \in 1..Len(s) |-> s[Len(s) + 1 - i]]
Increasing(s) == \A i, j \in 1..Len(s) : i < j => s[i] < s[j]
Decreasing(s) == \A i, j \in 1..Len(s) : i < j => s[i] > s[j]
Min(S) == CHOOSE x \in S : \A y \in S : x <= y

RECURSIVE Preorder(_, _)
RECURSIVE PreorderAll(_, _)
\* the subtree of n, depth-first, children before following siblings
Preorder(t, n) == <<n>> \o PreorderAll(t, t.kids[n])
PreorderAll(t, cs) ==
    IF cs = <<>> THEN <<>>
    ELSE Preorder(t, Head(cs)) \o PreorderAll(t, Tail(cs))

\* the elements that have a parent and match sel with no scope
Matching(t, sel) ==
    {n \in Ids(t) : is_element(t, n) /\ t.parent[n] # None /\ matches(t, sel, n)}

\* x comes before y in document order; both are in the document
DocumentBefore(t, x, y) ==
    LET doc == Preorder(t, root_id)
    IN  IndexOf(doc, x) < IndexOf(doc, y)

\* C1: after remove_node(id) on a non-root node of the document, a
\* document-wide select yields neither that node nor any node that was its
\* descendant when it was removed.
C1_RemovedSubtreeNotSelected ==
    res.op = "select" => Range(res.fwd) \cap removed.nodes = {}

\* C2: forward iteration of Html::select yields exactly the elements that
\* have a parent and match, each once, in document order.
C2_SelectInDocumentOrder ==
    res.op = "select" =>
        /\ Range(res.fwd) = Matching(html.tree, res.sel)
        /\ NoDup(res.fwd)
        /\ \A i, j \in 1..Len(res.fwd) :
              (/\ i < j
               /\ InDocument(html.tree, res.fwd[i])
               /\ InDocument(html.tree, res.fwd[j]))
              => DocumentBefore(html.tree, res.fwd[i], res.fwd[j])

\* C3: ElementRef::select on e yields, in pre-order, exactly the elements
\* that are proper descendants of e and match with e as the scope; never e,
\* never a node outside e's subtree, each at most once.
C3_ScopedSelect ==
    res.op = "elem_select" =>
        LET t == html.tree
            below == Tail(Preorder(t, res.e))
            hit(n) == is_element(t, n)
                      /\ matches_with_scope(t, res.sel, n, Some(res.e))
        IN  /\ res.out = SelectSeq(below, hit)
            /\ res.e \notin Range(res.out)
            /\ Range(res.out) \subseteq Descendants(t, res.e)
            /\ NoDup(res.out)

\* C3 witness: a scoped selection with a result, while an element outside
\* the subtree carries the selected name
C3_Witness ==
    /\ res.op = "elem_select"
    /\ res.sel = Tag("b")
    /\ res.out # <<>>
    /\ \E n \in Elements(html.tree) :
          /\ n # res.e
          /\ n \notin Descendants(html.tree, res.e)
          /\ html.tree.vals[n].name = "b"

ParentIsScriptOrStyle(t, n) ==
    /\ t.parent[n] # None
    /\ is_element(t, unwrap(t.parent[n]))
    /\ t.vals[unwrap(t.parent[n])].name \in {"script", "style"}

\* C4: ElementRef::text on e yields, in pre-order, one string per text node
\* of e's subtree except those whose immediate parent is a script or style
\* element; a more distant script or style ancestor does not exclude a text
\* node, and no text from outside the subtree is yielded.
C4_TextFilter ==
    res.op = "text" =>
        LET t == html.tree
            keep(n) == is_text(t, n) /\ ~ParentIsScriptOrStyle(t, n)
            want == SelectSeq(Preorder(t, res.e), keep)
        IN  /\ res.nodes = want
            /\ res.out = [i \in 1..Len(want) |-> t.vals[want[i]].text]
            /\ Range(res.nodes) \subseteq Descendants(t, res.e)

\* C4 witness: a yielded text node whose grandparent is a script or style
\* element
C4_Witness ==
    /\ res.op = "text"
    /\ \E i \in 1..Len(res.nodes) :
          /\ html.tree.parent[res.nodes[i]] # None
          /\ ParentIsScriptOrStyle(html.tree, unwrap(html.tree.parent[res.nodes[i]]))

\* C5: a fresh Html::select driven only from the back yields exactly the
\* reverse of what a fresh one driven only from the front yields.
C5_ReverseIsReverse ==
    res.op = "select" => res.rev = Reverse(res.fwd)

\* C5 witness: two or more matches, with unselected nodes in the arena
C5_Witness ==
    /\ res.op = "select"
    /\ Len(res.fwd) >= 2
    /\ \E n \in Ids(html.tree) : n # root_id /\ n \notin Range(res.fwd)

\* C6: every parse_error message received during construction is recorded,
\* in arrival order, in an error log held by the resulting Html value.
C6_ErrorsRecorded ==
    phase = "parsed" => errors(html) = received

\* the lang attribute of the first element the html selector yields, or ""
FirstHtmlLang(t) ==
    LET m == Matching(t, HTML_SELECTOR)
    IN  IF m = {} THEN ""
        ELSE LET a == attr(t.vals[Min(m)], "lang")
             IN  IF is_some(a) THEN unwrap(a) ELSE ""

\* C7 as stated: after set_language(s), for any s including the empty
\* string, get_lang returns s; if set_language was never called it returns
\* the lang attribute of the first html element, or the empty string.
C7_SetterAlwaysWins ==
    res.op = "get_lang" =>
        /\ res.out = IF is_some(explicit) THEN unwrap(explicit)
                     ELSE FirstHtmlLang(html.tree)
        /\ html.lang = IF is_some(explicit) THEN unwrap(explicit) ELSE ""

\* C7 amended: after set_language(s) with a non-empty s, get_lang returns s;
\* if set_language was never called or was last called with the empty
\* string, it returns the lang attribute of the first html element, or the
\* empty string; get_lang leaves the stored lang as it was.
C7_NonEmptySetterWins ==
    res.op = "get_lang" =>
        /\ res.out = IF is_some(explicit) /\ unwrap(explicit) # ""
                     THEN unwrap(explicit)
                     ELSE FirstHtmlLang(html.tree)
        /\ html.lang = IF is_some(explicit) THEN unwrap(explicit) ELSE ""

\* C7 witness: an explicit language returned over a tree that has another
C7_Witness ==
    /\ res.op = "get_lang"
    /\ explicit = Some("fr")
    /\ FirstHtmlLang(html.tree) = "en"
    /\ res.out = "fr"

\* C8: remove_node with the id of a node already removed, or of the root,
\* leaves the tree linkage, quirks_mode and lang as they were.
C8_RemoveIdempotent ==
    (res.op = "remove_node" /\ (res.again \/ res.id = root_id))
        => html = res.before

\* C8 witness: a second removal of a node that has a subtree, in a document
\* with a quirks mode and a language set
C8_Witness ==
    /\ res.op = "remove_node"
    /\ res.again
    /\ html.tree.kids[res.id] # <<>>
    /\ html.tree.kids[root_id] # <<>>
    /\ html.quirks_mode # "NoQuirks"
    /\ html.lang # ""

\* C9: root_element returns the first child of the root that is an element,
\* skipping the children before it, and panics exactly when the root has no
\* element child.
C9_RootElement ==
    res.op = "root_element" =>
        LET t == html.tree
            ks == t.kids[root_id]
            es == {i \in 1..Len(ks) : is_element(t, ks[i])}
        IN  IF es = {} THEN res.out.panic
            ELSE /\ ~res.out.panic
                 /\ res.out.value = Some(ks[Min(es)])

\* C9 witness: the root element found behind a doctype or a comment
C9_Witness ==
    /\ res.op = "root_element"
    /\ ~res.out.panic
    /\ res.out.value # Some(Head(html.tree.kids[root_id]))

\* C10: on one Html::select iterator driven by any interleaving of next and
\* next_back, no element is yielded twice, the front yields go up and the
\* back yields go down in iteration order, nothing is yielded after a None,
\* and at a None everything that matches has been yielded.
C10_SharedCursor ==
    it.live =>
        /\ NoDup(it.front \o it.back)
        /\ Increasing(it.front)
        /\ Decreasing(it.back)
        /\ ~it.late
        /\ Range(it.front) \cup Range(it.back)
              \subseteq Matching(html.tree, it.iter.selector)
        /\ it.ended => Range(it.front) \cup Range(it.back)
                          = Matching(html.tree, it.iter.selector)

\* C10 witness: an iterator drained from both ends
C10_Witness ==
    /\ it.live
    /\ it.ended
    /\ it.front # <<>>
    /\ it.back # <<>>

====
